---------------------------- MODULE Spec2Model ----------------------------
(***************************************************************************)
(* Model of stravaview/stravadb.py: class Strava, which mirrors the        *)
(* activities of a remote tracking API into a MySQL table                  *)
(* (update_activities / push_activity), fills the gears table              *)
(* (update_bikes / update_shoes) and queries the mirror (get_activities).  *)
(*                                                                         *)
(* A row of the activities table keeps the columns that some modelled      *)
(* operation reads back or that a property is about: id, name, date,       *)
(* gear_id, red_points, commute, type.  The remaining columns (distance,   *)
(* elevation, durations, speed, heart rates, calories, description,        *)
(* location text) are written by push_activity and never read by it.       *)
(*                                                                         *)
(* Python's None is NoneInt where the value is a number, NoneStr where it  *)
(* is a string and NoneName where it is a name (a sequence of letters).    *)
(***************************************************************************)
EXTENDS Integers, Sequences, FiniteSets, TLC

\* ------------------------------------------------------------- bounds ----
MaxActs == 2
MaxDate == 2
MaxPoints == 1

\* ---------------------------------------------------------- constants ----
NoneInt == -1
NoneStr == "<None>"
NoneName == << "<None>" >>

CX == "CX"
TT == "TT"
MTB == "MTB"
ROAD == "Road"
RIDE == "Ride"
HIKE == "Hike"
RUN == "Run"
WALK == "Walk"
FRAME_TYPES == (0 :> "") @@ (1 :> MTB) @@ (3 :> ROAD) @@ (2 :> CX) @@ (4 :> TT)
ACTIVITY_TYPES == {HIKE, RUN, RIDE, ROAD, MTB, CX, TT}

Procs == {1, 2}
Ids == 1..MaxActs
Dates == 1..MaxDate
BikeIds == {"b1"}
ShoeIds == {"s1"}

VARIABLES
    remote,       \* the activities the remote API holds: id -> activity
    remoteBikes,  \* the athlete's bikes at the remote API: gear id -> frame_type
    remoteShoes,  \* the athlete's shoes at the remote API: set of gear ids
    writers,      \* the processes that hold a Strava instance on the database
    with_points,  \* config['with_points']
    strict,       \* the server's sql_mode rejects a non-integer for an int column
    rows,         \* the activities table, in insertion order
    gears,        \* the gears table, in insertion order
    pc,           \* per process: where it is in update_activities
    last,         \* per process: how its previous update_activities call ended
    after,        \* per process: the lower bound of its current fetch
    batch,        \* per process: the fetched activities not yet handled
    err,          \* per process: the exception that ended its current call
    query         \* the last get_activities call: arguments, conditions, result

vars == << remote, remoteBikes, remoteShoes, writers, with_points, strict,
           rows, gears, pc, last, after, batch, err, query >>

\* ------------------------------------------------------------ helpers ----
StoredIds == { rows[i].id : i \in DOMAIN rows }

\* "%s" % v for an optional string (None is rendered as the text None)
FormatStr(v) == IF v = NoneStr THEN "None" ELSE v

\* ------------------------------------------------------- _get_points ----
\* the indices of the zones of kind 'heartrate' (lines 223-224)
HeartrateZones(zones) == { i \in DOMAIN zones : zones[i].type = "heartrate" }

\* lines 209-227.  Reading activity.zones is a remote call that may raise
\* (zones_raises); the bare except turns that into 0.  When the loop ends
\* without a zone of kind 'heartrate' the function falls off its end and
\* returns None.
_get_points(activity) ==
    IF (~with_points) \/ (~activity.has_heartrate) THEN 0
    ELSE IF activity.zones_raises THEN 0
    ELSE IF Len(activity.zones) = 0 THEN 0
    ELSE IF HeartrateZones(activity.zones) # {}
         THEN LET i == CHOOSE j \in HeartrateZones(activity.zones) :
                          \A k \in HeartrateZones(activity.zones) : j <= k
              IN  activity.zones[i].points
         ELSE NoneInt

\* ----------------------------------------------------- push_activity ----
\* lines 238-239: SELECT * FROM activities WHERE id = activity.id LIMIT 1,
\* read from the committed table
ExistsNever(activity) == FALSE
Exists(activity) == \E i \in DOMAIN rows : rows[i].id = activity.id

\* line 243: the activity is neither a ride, a run nor a hike
RejectsNothing(activity) == FALSE
NotARideNorARun(activity) ==
    activity.type # RIDE /\ activity.type # RUN /\ activity.type # HIKE

\* lines 254, 271-276: the red_points value handed to the INSERT
RedPoints(activity) ==
    IF activity.average_heartrate # NoneInt /\ activity.suffer_score # NoneInt
    THEN _get_points(activity)
    ELSE 0

\* lines 247-289: the values interpolated into the INSERT statement
InsertValues(activity) ==
    [ id         |-> activity.id,
      name       |-> activity.name,
      date       |-> activity.start_date_local,
      gear_id    |-> FormatStr(activity.gear_id),
      red_points |-> RedPoints(activity),
      commute    |-> IF activity.commute THEN 1 ELSE 0,
      type       |-> activity.type ]

\* what the server stores for the text '%s' % v in an int column: the number,
\* and for the text None either 0 (lenient sql_mode) or no row at all
IntColumn(v) == IF v = NoneInt THEN 0 ELSE v

\* line 290: the server's verdict on the INSERT.  "ok", or the error it raises
InsertVerdictNoKey(values) ==
    IF values.red_points = NoneInt /\ strict THEN "DataError" ELSE "ok"
InsertVerdict(values) ==
    IF values.red_points = NoneInt /\ strict THEN "DataError"
    ELSE IF \E i \in DOMAIN rows : rows[i].id = values.id THEN "IntegrityError"
    ELSE "ok"

\* the row the server stores for an accepted INSERT
StoredRow(values) == [ values EXCEPT !.red_points = IntColumn(values.red_points) ]

\* ------------------------------------------------- update_activities ----
\* lines 298-302: SELECT date FROM activities ORDER BY date DESC LIMIT 1
OldestDate ==
    IF Len(rows) = 0 THEN NoneInt
    ELSE LET i == CHOOSE j \in DOMAIN rows : \A k \in DOMAIN rows : rows[j].date <= rows[k].date
         IN  rows[i].date
LatestDate ==
    IF Len(rows) = 0 THEN NoneInt
    ELSE LET i == CHOOSE j \in DOMAIN rows : \A k \in DOMAIN rows : rows[j].date >= rows[k].date
         IN  rows[i].date

\* the activities the remote API selects for get_activities(after=a): all of
\* them without a bound, else those that started at the bound or later
Selected(a) == { i \in Ids : a = NoneInt \/ remote[i].start_date_local >= a }

Earlier(i, j) ==
    \/ remote[i].start_date_local < remote[j].start_date_local
    \/ remote[i].start_date_local = remote[j].start_date_local /\ i <= j

RECURSIVE Chronological(_)
Chronological(S) ==
    IF S = {} THEN << >>
    ELSE LET i == CHOOSE j \in S : \A k \in S : Earlier(j, k)
         IN  << remote[i] >> \o Chronological(S \ {i})

Reverse(s) == [ i \in 1..Len(s) |-> s[Len(s) + 1 - i] ]

\* line 303: the sequence the remote API yields; it yields oldest first or
\* newest first
Fetch(a, order) ==
    IF order = "asc" THEN Chronological(Selected(a))
    ELSE Reverse(Chronological(Selected(a)))

\* lines 305-306: the for loop goes on with the next activity or ends
LoopPc(b) == IF Len(b) = 0 THEN "done" ELSE "loop"

\* an exception leaves push_activity and update_activities: nothing catches
\* it, the rest of the generator is dropped and nothing is rolled back
RaiseAndGoOn(p, e) ==
    /\ pc' = [pc EXCEPT ![p] = LoopPc(Tail(batch[p]))]
    /\ err' = [err EXCEPT ![p] = e]
    /\ batch' = [batch EXCEPT ![p] = Tail(batch[p])]
    /\ UNCHANGED rows
RaiseAndReturn(p, e) ==
    /\ pc' = [pc EXCEPT ![p] = "done"]
    /\ err' = [err EXCEPT ![p] = ""]
    /\ batch' = [batch EXCEPT ![p] = << >>]
    /\ UNCHANGED rows
Raise(p, e) ==
    /\ pc' = [pc EXCEPT ![p] = "aborted"]
    /\ err' = [err EXCEPT ![p] = e]
    /\ batch' = [batch EXCEPT ![p] = << >>]
    /\ UNCHANGED rows

\* the print-and-return of lines 240-241 and 244-245
Skip(p) ==
    /\ pc' = [pc EXCEPT ![p] = LoopPc(Tail(batch[p]))]
    /\ batch' = [batch EXCEPT ![p] = Tail(batch[p])]
    /\ UNCHANGED << rows, err >>

\* lines 293-304: a call of update_activities up to the for loop
update_activities(p) ==
    /\ p \in writers
    /\ pc[p] \in {"idle", "done", "aborted"}
    /\ \E order \in {"asc", "desc"} :
         LET new_activities == Fetch(LatestDate, order)
         IN  /\ after' = [after EXCEPT ![p] = LatestDate]
             /\ batch' = [batch EXCEPT ![p] = new_activities]
             /\ pc' = [pc EXCEPT ![p] = LoopPc(new_activities)]
    /\ last' = [last EXCEPT ![p] = pc[p]]
    /\ err' = [err EXCEPT ![p] = ""]
    /\ UNCHANGED << remote, remoteBikes, remoteShoes, writers, with_points,
                    strict, rows, gears, query >>

\* lines 237-289 for the next activity of the loop: the existence check, the
\* type check and the transformation, whose reverse geocoding (line 265,
\* _get_location) is a remote call that may raise
push_activity(p) ==
    /\ p \in writers
    /\ pc[p] = "loop"
    /\ LET activity == Head(batch[p])
       IN  IF Exists(activity) THEN Skip(p)
           ELSE IF NotARideNorARun(activity) THEN Skip(p)
           ELSE \E geocoder_raises \in BOOLEAN :
                  IF geocoder_raises THEN Raise(p, "GeocoderError")
                  ELSE /\ pc' = [pc EXCEPT ![p] = "insert"]
                       /\ UNCHANGED << rows, batch, err >>
    /\ UNCHANGED << remote, remoteBikes, remoteShoes, writers, with_points,
                    strict, gears, last, after, query >>

\* lines 290-291: the INSERT and the commit
push_activity_insert(p) ==
    /\ p \in writers
    /\ pc[p] = "insert"
    /\ LET values == InsertValues(Head(batch[p]))
       IN  IF InsertVerdict(values) = "ok"
           THEN /\ rows' = Append(rows, StoredRow(values))
                /\ batch' = [batch EXCEPT ![p] = Tail(batch[p])]
                /\ pc' = [pc EXCEPT ![p] = LoopPc(Tail(batch[p]))]
                /\ UNCHANGED err
           ELSE Raise(p, InsertVerdict(values))
    /\ UNCHANGED << remote, remoteBikes, remoteShoes, writers, with_points,
                    strict, gears, last, after, query >>

\* ------------------------------------------ update_bikes, update_shoes ----
\* the methods of a Strava instance are blocking calls of one thread: an
\* instance starts a call only when it is not inside update_activities
Returned(p) == p \in writers /\ pc[p] \in {"idle", "done", "aborted"}

GearIds == { g.id : g \in gears }

\* lines 173-189: every bike of the athlete that is not in the gears table
\* is inserted with the type its frame_type maps to
update_bikes(p) ==
    /\ Returned(p)
    /\ gears' = gears \cup
         { [ id |-> b, type |-> FRAME_TYPES[remoteBikes[b]], frame_type |-> remoteBikes[b] ] :
             b \in { x \in DOMAIN remoteBikes : x \notin GearIds } }
    /\ gears' # gears
    /\ UNCHANGED << remote, remoteBikes, remoteShoes, writers, with_points,
                    strict, rows, pc, last, after, batch, err, query >>

\* lines 191-207: every pair of shoes that is not in the gears table is
\* inserted with the type Run (frame_type takes the column's default, 0)
update_shoes(p) ==
    /\ Returned(p)
    /\ gears' = gears \cup
         { [ id |-> x, type |-> RUN, frame_type |-> 0 ] :
             x \in { y \in remoteShoes : y \notin GearIds } }
    /\ gears' # gears
    /\ UNCHANGED << remote, remoteBikes, remoteShoes, writers, with_points,
                    strict, rows, pc, last, after, batch, err, query >>

\* ---------------------------------------------------- get_activities ----
\* a.name LIKE '%name%'
Contains(s, sub) ==
    \E i \in 0..(Len(s) - Len(sub)) : SubSeq(s, i + 1, i + Len(sub)) = sub

\* lines 361-371: the condition the activity_type argument adds to conds, as
\* the pair (value compared with a.type, value compared with b.type)
TypeCondsAllOnActivity(activity_type) ==
    IF activity_type = NoneStr THEN [ a_type |-> NoneStr, b_type |-> NoneStr ]
    ELSE [ a_type |-> activity_type, b_type |-> NoneStr ]
TypeConds(activity_type) ==
    IF activity_type = NoneStr THEN [ a_type |-> NoneStr, b_type |-> NoneStr ]
    ELSE IF ~(activity_type \in ACTIVITY_TYPES)
         THEN [ a_type |-> NoneStr, b_type |-> NoneStr ]
    ELSE IF activity_type \in {HIKE, RUN, RIDE}
         THEN [ a_type |-> activity_type, b_type |-> NoneStr ]
    ELSE [ a_type |-> NoneStr, b_type |-> activity_type ]

\* lines 345-371: the list conds; a condition that was not appended is None
Conds(before, aft, name, activity_type) ==
    [ before |-> before,
      after  |-> aft,
      name   |-> name,
      a_type |-> TypeConds(activity_type).a_type,
      b_type |-> TypeConds(activity_type).b_type ]

\* lines 373-377: activities AS a LEFT JOIN gears AS b ON a.gear_id = b.id
\* (bike_type is NULL, here None, for a row without a matching gear)
Joined(a) ==
    [ id |-> a.id, name |-> a.name, date |-> a.date, commute |-> a.commute,
      red_points |-> a.red_points, activity_type |-> a.type,
      bike_type |-> IF \E g \in gears : g.id = a.gear_id
                    THEN (CHOOSE g \in gears : g.id = a.gear_id).type
                    ELSE NoneStr ]

\* lines 378-380: WHERE c1 AND c2 AND ...
Where(r, conds) ==
    /\ conds.before # NoneInt => r.date <= conds.before
    /\ conds.after # NoneInt => r.date >= conds.after
    /\ conds.name # NoneName => Contains(r.name, conds.name)
    /\ conds.a_type # NoneStr => r.activity_type = conds.a_type
    /\ conds.b_type # NoneStr => (r.bike_type # NoneStr /\ r.bike_type = conds.b_type)

\* line 381: ORDER BY date DESC (rows of one date in insertion order)
RECURSIVE OrderByDateDesc(_)
OrderByDateDesc(S) ==
    IF S = {} THEN << >>
    ELSE LET i == CHOOSE j \in S : \A k \in S :
                    \/ rows[j].date > rows[k].date
                    \/ rows[j].date = rows[k].date /\ j <= k
         IN  << Joined(rows[i]) >> \o OrderByDateDesc(S \ {i})

\* lines 373-383: what cursor.fetchall() returns for the composed query
Select(conds) ==
    OrderByDateDesc({ i \in DOMAIN rows : Where(Joined(rows[i]), conds) })

\* the before, after and name arguments of the calls: none of them, or one
QueryFilters ==
    { << NoneInt, NoneInt, NoneName >>, << 1, NoneInt, NoneName >>,
      << NoneInt, MaxDate, NoneName >>, << NoneInt, NoneInt, << "b" >> >> }
QueryTypes == {NoneStr} \cup ACTIVITY_TYPES \cup {WALK, "Scooter"}

\* lines 325-388 (both output modes read the same cursor.fetchall())
get_activities(p) ==
    /\ Returned(p)
    /\ \E f \in QueryFilters, activity_type \in QueryTypes :
         LET before == f[1]
             aft == f[2]
             name == f[3]
         IN
         query' = [ called |-> TRUE, before |-> before, after |-> aft, name |-> name,
                    activity_type |-> activity_type,
                    conds |-> Conds(before, aft, name, activity_type),
                    result |-> Select(Conds(before, aft, name, activity_type)) ]
    /\ UNCHANGED << remote, remoteBikes, remoteShoes, writers, with_points,
                    strict, rows, gears, pc, last, after, batch, err >>

\* ------------------------------------------------------ initial states ----
NoHeartrate ==
    [ has_heartrate |-> FALSE, average_heartrate |-> NoneInt, suffer_score |-> NoneInt,
      zones_raises |-> FALSE, zones |-> << >> ]

NameOf(i) == IF i % 2 = 1 THEN << "a" >> ELSE << "a", "b" >>

\* a stravalib.model.Activity as far as this module reads it
Activity(i, date, type, commute, gear_id, hr) ==
    [ id |-> i, name |-> NameOf(i), start_date_local |-> date, type |-> type,
      commute |-> commute, gear_id |-> gear_id,
      has_heartrate |-> hr.has_heartrate, average_heartrate |-> hr.average_heartrate,
      suffer_score |-> hr.suffer_score, zones_raises |-> hr.zones_raises,
      zones |-> hr.zones ]

NoQuery ==
    [ called |-> FALSE, before |-> NoneInt, after |-> NoneInt, name |-> NoneName,
      activity_type |-> NoneStr, conds |-> Conds(NoneInt, NoneInt, NoneName, NoneStr),
      result |-> << >> ]

\* lines 97-110 and the empty tables of create_*_table
Constructed ==
    /\ rows = << >>
    /\ gears = {}
    /\ pc = [ p \in Procs |-> "idle" ]
    /\ last = [ p \in Procs |-> "idle" ]
    /\ after = [ p \in Procs |-> NoneInt ]
    /\ batch = [ p \in Procs |-> << >> ]
    /\ err = [ p \in Procs |-> "" ]
    /\ query = NoQuery

RemoteTypes == {RIDE, RUN, HIKE, WALK}

\* one process syncs activities of any type, date and commute flag
Init ==
    /\ Constructed
    /\ writers = {1}
    /\ with_points = TRUE
    /\ strict = TRUE
    /\ remoteBikes = [ b \in BikeIds |-> 1 ]
    /\ remoteShoes = ShoeIds
    /\ \E f \in [ Ids -> Dates \X RemoteTypes \X BOOLEAN ] :
         remote = [ i \in Ids |->
                      Activity(i, f[i][1], f[i][2], f[i][3], NoneStr, NoHeartrate) ]

Next ==
    \E p \in Procs :
       \/ update_activities(p)
       \/ push_activity(p)
       \/ push_activity_insert(p)

Spec == Init /\ [][Next]_vars

\* two processes sync the same remote activities into the same table
InitRace ==
    /\ Constructed
    /\ writers = {1, 2}
    /\ with_points = TRUE
    /\ strict = TRUE
    /\ remoteBikes = [ b \in BikeIds |-> 1 ]
    /\ remoteShoes = ShoeIds
    /\ \E f \in [ Ids -> Dates \X {RIDE, WALK} ] :
         remote = [ i \in Ids |->
                      Activity(i, f[i][1], f[i][2], FALSE, NoneStr, NoHeartrate) ]

SpecRace == InitRace /\ [][Next]_vars

\* one process syncs one ride whose heart-rate data is anything
MaxZones == 2
ZoneKinds == {"heartrate", "power"}
Zone == [ type : ZoneKinds, points : 1..MaxPoints ]
ZoneLists == UNION { [ 1..n -> Zone ] : n \in 0..MaxZones }
Heartrates ==
    { hr \in [ has_heartrate : BOOLEAN, average_heartrate : {NoneInt, 150},
               suffer_score : {NoneInt, 10}, zones_raises : BOOLEAN,
               zones : ZoneLists ] :
        hr.zones_raises => hr.zones = << >> }

InitPoints ==
    /\ Constructed
    /\ writers = {1}
    /\ with_points \in BOOLEAN
    /\ strict \in BOOLEAN
    /\ remoteBikes = [ b \in BikeIds |-> 1 ]
    /\ remoteShoes = ShoeIds
    /\ \E hr \in Heartrates :
         remote = [ i \in Ids |-> Activity(i, 1, RIDE, FALSE, NoneStr, hr) ]

SpecPoints == InitPoints /\ [][Next]_vars

\* get_activities is a function of the two tables and its arguments: the
\* activities table holds, in the order of their identifiers, the rows that
\* push_activity stored for the remote activities it accepts
RECURSIVE Pushed(_, _)
Pushed(S, acts) ==
    IF S = {} THEN << >>
    ELSE LET i == CHOOSE j \in S : \A k \in S : j <= k
         IN  << StoredRow(InsertValues(acts[i])) >> \o Pushed(S \ {i}, acts)

InitQuery ==
    /\ writers = {1}
    /\ with_points = TRUE
    /\ strict = TRUE
    /\ remoteBikes \in [ BikeIds -> DOMAIN FRAME_TYPES ]
    /\ remoteShoes = ShoeIds
    /\ \E f \in [ Ids -> { << RIDE, "b1" >>, << RUN, "s1" >>, << HIKE, NoneStr >>,
                            << WALK, NoneStr >> } ] :
         remote = [ i \in Ids |->
                      Activity(i, ((i - 1) % MaxDate) + 1, f[i][1], FALSE, f[i][2],
                               NoHeartrate) ]
    /\ rows = Pushed({ i \in Ids : ~NotARideNorARun(remote[i]) }, remote)
    /\ gears = {}
    /\ pc = [ p \in Procs |-> "idle" ]
    /\ last = [ p \in Procs |-> "idle" ]
    /\ after = [ p \in Procs |-> NoneInt ]
    /\ batch = [ p \in Procs |-> << >> ]
    /\ err = [ p \in Procs |-> "" ]
    /\ query = NoQuery

NextQuery ==
    \E p \in Procs :
       \/ update_bikes(p)
       \/ update_shoes(p)
       \/ get_activities(p)

SpecQuery == InitQuery /\ [][NextQuery]_vars

\* ----------------------------------------------------------- properties ----
FunTypes == {RIDE, RUN, HIKE}

UniqueIds(t) == \A i, j \in DOMAIN t : t[i].id = t[j].id => i = j

IsPrefix(s, t) == Len(s) <= Len(t) /\ SubSeq(t, 1, Len(s)) = s

Range(s) == { s[i] : i \in DOMAIN s }

\* C1: no row of the activities table has the commute flag set.
NoCommuteStored == \A i \in DOMAIN rows : rows[i].commute = 0

\* C2: every row's type is Ride, Run or Hike, and a push_activity call for an
\* activity of another type inserts nothing and raises nothing.
OnlyFunTypesStored ==
    [][ /\ \A i \in DOMAIN rows' : rows'[i].type \in FunTypes
        /\ \A p \in writers :
             (pc[p] = "loop" /\ Head(batch[p]).type \notin FunTypes)
                => (rows' = rows /\ pc'[p] \in {"loop", "done"} /\ err'[p] = "") ]_vars

\* a first sync over all remote activities has ended normally; it skipped an
\* activity that is neither ride, run nor hike and stored another one
OtherTypeSkipped ==
    /\ pc[1] = "done" /\ last[1] = "idle" /\ after[1] = NoneInt
    /\ \E i \in Ids : remote[i].type = WALK /\ i \notin StoredIds
    /\ Len(rows) > 0

\* C3: with one writer, once update_activities has run to completion, the
\* next run inserts no row (the table stays as the first run left it), and
\* no identifier is ever stored twice.
SyncIdempotent ==
    [][ /\ UniqueIds(rows')
        /\ (writers = {1} /\ last[1] = "done") => rows' = rows ]_vars

\* a second run has ended normally after a first one that did, with rows stored
SecondSyncDone == pc[1] = "done" /\ last[1] = "done" /\ Len(rows) > 1

\* C4: with one writer the table holds at most one row per identifier, and a
\* push_activity call for a stored identifier is a skip: the table is
\* unchanged, nothing is raised and the loop goes on.
DuplicateSkipped ==
    [][ /\ UniqueIds(rows')
        /\ (writers = {1} /\ pc[1] = "loop" /\ Head(batch[1]).id \in StoredIds)
              => (rows' = rows /\ pc'[1] \in {"loop", "done"} /\ err'[1] = "") ]_vars

\* a sync that followed an aborted one has ended normally: it was given the
\* stored activity of the latest date again
StoredPushedAgain ==
    pc[1] = "done" /\ last[1] = "aborted" /\ after[1] # NoneInt /\ Len(rows) > 0

\* C5: update_activities fetches with no lower bound exactly when the table
\* is empty at its start; otherwise the bound is the greatest stored date;
\* the batch is the remote activities that are not older than the bound.
FetchLowerBound ==
    [][ \A p \in writers :
          (pc[p] \in {"idle", "done", "aborted"} /\ pc'[p] = "loop")
             => /\ (after'[p] = NoneInt) <=> (Len(rows) = 0)
                /\ Len(rows) > 0 =>
                     /\ \E i \in DOMAIN rows : rows[i].date = after'[p]
                     /\ \A i \in DOMAIN rows : rows[i].date <= after'[p]
                /\ Range(batch'[p]) =
                     { remote[i] : i \in { j \in Ids :
                          after'[p] = NoneInt \/ remote[j].start_date_local >= after'[p] } } ]_vars

\* a sync has started over a table that holds rows of two dates
BoundedFetch ==
    /\ pc[1] = "loop" /\ after[1] # NoneInt
    /\ \E i, j \in DOMAIN rows : rows[i].date < rows[j].date

\* C6: in get_activities a category Hike, Run or Ride is a condition on the
\* activity's own type, a category Road, MTB, CX or TT is a condition on the
\* joined gear's type, and any other category adds no condition: the result
\* is the result of the same call with no category.
MatchesOwnType(r) == r.activity_type = query'.activity_type
MatchesGearType(r) == r.bike_type = query'.activity_type
ReportsHeartrate(activity) ==
    /\ activity.has_heartrate
    /\ activity.average_heartrate # NoneInt
    /\ activity.suffer_score # NoneInt
ClaimedPoints(activity) ==
    IF with_points /\ ReportsHeartrate(activity) /\ ~activity.zones_raises
       /\ HeartrateZones(activity.zones) # {}
    THEN activity.zones[CHOOSE j \in HeartrateZones(activity.zones) :
                           \A k \in HeartrateZones(activity.zones) : j <= k].points
    ELSE 0
RedPointsIsANumber ==
    \A p \in writers :
       pc[p] = "insert" =>
          /\ InsertValues(Head(batch[p])).red_points \in Nat
          /\ InsertValues(Head(batch[p])).red_points = ClaimedPoints(Head(batch[p]))

\* C8: with two writers both can pass the existence check for one
\* identifier; the later insert is then rejected by the primary key and ends
\* that sync, and the table never holds two rows of one identifier.
DuplicateInsertRejected ==
    [][ /\ UniqueIds(rows')
        /\ \A p \in writers :
             (pc[p] = "insert" /\ pc'[p] # "insert" /\ Head(batch[p]).id \in StoredIds)
                => (rows' = rows /\ pc'[p] = "aborted" /\ err'[p] = "IntegrityError") ]_vars

\* a sync lost the race: its insert was rejected, the other's row is stored
RaceLost ==
    \E p \in writers : pc[p] = "aborted" /\ err[p] = "IntegrityError" /\ Len(rows) > 0

\* C9: an exception in push_activity ends the sync at once: the rest of the
\* batch is dropped, the table keeps every row it has, and an aborted sync
\* inserts nothing more.
AbortKeepsRows ==
    [][ /\ IsPrefix(rows, rows')
        /\ \A p \in writers :
             /\ (err[p] = "" /\ err'[p] # "")
                   => (pc'[p] = "aborted" /\ batch'[p] = << >> /\ rows' = rows)
             /\ (writers = {1} /\ pc[p] = "aborted") => rows' = rows ]_vars

\* a first sync stored a row and was then aborted by an exception
AbortedAfterInsert ==
    pc[1] = "aborted" /\ last[1] = "idle" /\ err[1] # "" /\ Len(rows) > 0

\* C10: when a sync that followed an aborted one has ended normally, every
\* remote ride, run and hike is stored.
Restartable ==
    (pc[1] = "done" /\ last[1] = "aborted")
       => \A i \in Ids : remote[i].type \in FunTypes => i \in StoredIds

=============================================================================
